---- MODULE Spec2Model ----
(***************************************************************************)
(* A model of the two scraping engines of advanced-python-scraper:         *)
(*   BookScraper          (src/scraper.py)                                 *)
(*   AdvancedBookScraper  (src/advanced_scraper.py) with its three         *)
(*                        backends AioHttpBackend, RequestsHtmlBackend,    *)
(*                        PlaywrightBackend                                *)
(* of the link discovery of main() in src/scraper.py (SpecLinks), of       *)
(* _format_html_content, the content extractor of both engines             *)
(* (SpecExtract), and of construction from a configuration file            *)
(* (SpecConfig).  FairSpec is Spec with the fairness of the event loop.    *)
(*                                                                         *)
(* The caller is the one of main() and of the integration tests:           *)
(*     async with Engine(...) as scraper:                                  *)
(*         await scraper.scrape_multiple_pages(pages)                      *)
(* run by asyncio.run.  A page task is a coroutine; one action of the      *)
(* model is the code a coroutine runs between two suspension points        *)
(* (await of the semaphore, of a sleep, of the network).                   *)
(*                                                                         *)
(* Durations are in milliseconds, strings are sequences of one-character   *)
(* strings.                                                                *)
(***************************************************************************)
EXTENDS Integers, Sequences, FiniteSets, TLC

\* ---------------------------------------------------------------- bounds
MaxAttempts == 3
MaxConcurrent == 2
MaxPages == 2
MaxAnchors == 3
\* abstract lengths of a fetched document and of the output template
RawLen == 1
TemplateLen == 2
\* the number of elements at the top of a document body
MaxKids == 2

\* ------------------------------------------------------ program constants
\* rate_limiting.delay 0.1 s
DefaultDelay == 100
\* retry.backoff_factor 0.5 s
DefaultBackoffFactor == 500
\* await asyncio.sleep(1) of RequestsHtmlBackend.scrape_page
RequestsHtmlRetrySleep == 1000
\* await asyncio.sleep(2) of PlaywrightBackend.scrape_page
PlaywrightRetrySleep == 2000
\* retry.max_attempts of default_config
DefaultMaxAttempts == 3
\* concurrency.max_concurrent of default_config and of `max_concurrent: int = 10`
DefaultMaxConcurrent == 10

VARIABLES
    engine,          \* "BookScraper" | "AdvancedBookScraper"
    backend,         \* self.backend / self.backend_name
    available,       \* PLAYWRIGHT_AVAILABLE, AIOHTTP_AVAILABLE, ... of the backend
    config,          \* self.config, the merged configuration
    max_concurrent,  \* self.max_concurrent
    pages,           \* the argument of scrape_multiple_pages
    pc,              \* position of the caller
    resources,       \* playwright driver, browser, context, http session
    semaphore,       \* value of asyncio.Semaphore(self.max_concurrent)
    task,            \* the page tasks handed to asyncio.gather
    metrics,         \* self.metrics
    files,           \* the output directory: filename -> content
    exc,             \* the exception the caller has seen
    output_dir,      \* self.output_dir on disk, and the os.makedirs calls on it
    anchors,         \* link discovery: the anchors of the seed document
    filtered_links,  \* link discovery: the list content_links of main()
    unique_links,    \* link discovery: the result
    lpc,             \* link discovery: position
    document,        \* content extraction: original_html
    title_arg,       \* content extraction: the title handed in
    formatted_content, \* content extraction: what _format_html_content returned
    xpc,             \* content extraction: position
    config_file,     \* construction: the configuration file named by config_file
    max_concurrent_arg, \* construction: the argument max_concurrent
    merged_config,   \* construction: what _load_config returned
    user_agents,     \* self.user_agents
    name_args,       \* file names: the index, url and title of a page
    filename,        \* file names: the name the engine gives the page
    npc              \* file names: position

engineVars == <<engine, backend, available, config, max_concurrent, pages,
                pc, resources, semaphore, task, metrics, files, exc, output_dir>>
linkVars == <<anchors, filtered_links, unique_links, lpc>>
extractVars == <<document, title_arg, formatted_content, xpc>>
\* the variables of the pure functions, which the engine does not touch
configVars == <<config_file, max_concurrent_arg, merged_config, user_agents>>
nameVars == <<name_args, filename, npc>>
functionVars == <<linkVars, extractVars, configVars, nameVars>>
vars == <<engine, backend, available, config, max_concurrent, pages,
          pc, resources, semaphore, task, metrics, files, exc, output_dir,
          anchors, filtered_links, unique_links, lpc,
          document, title_arg, formatted_content, xpc,
          config_file, max_concurrent_arg, merged_config, user_agents,
          name_args, filename, npc>>

\* ---------------------------------------------------------------- strings
UpperSeq == <<"A","B","C","D","E","F","G","H","I","J","K","L","M",
              "N","O","P","Q","R","S","T","U","V","W","X","Y","Z">>
LowerSeq == <<"a","b","c","d","e","f","g","h","i","j","k","l","m",
              "n","o","p","q","r","s","t","u","v","w","x","y","z">>
DigitSeq == <<"0","1","2","3","4","5","6","7","8","9">>

Range(s) == {s[i] : i \in DOMAIN s}

\* str.lower on one character
LowerChar(c) ==
    IF c \in Range(UpperSeq)
    THEN LowerSeq[CHOOSE i \in DOMAIN UpperSeq : UpperSeq[i] = c]
    ELSE c

lower(s) == [i \in DOMAIN s |-> LowerChar(s[i])]

\* the class \w of re
IsWord(c) == c \in Range(UpperSeq) \cup Range(LowerSeq) \cup Range(DigitSeq) \cup {"_"}

\* the characters str.strip() removes
Whitespace == {" ", "\t", "\n"}

\* s.startswith(p), s.endswith(p)
startswith(s, p) == Len(s) >= Len(p) /\ SubSeq(s, 1, Len(p)) = p
endswith(s, p) == Len(s) >= Len(p) /\ SubSeq(s, Len(s) - Len(p) + 1, Len(s)) = p

RECURSIVE rstrip(_, _)
\* s.rstrip(chars)
rstrip(s, chars) ==
    IF s # <<>> /\ s[Len(s)] \in chars
    THEN rstrip(SubSeq(s, 1, Len(s) - 1), chars)
    ELSE s

RECURSIVE lstrip(_, _)
lstrip(s, chars) ==
    IF s # <<>> /\ s[1] \in chars
    THEN lstrip(Tail(s), chars)
    ELSE s

\* s.strip(chars)
strip(s, chars) == lstrip(rstrip(s, chars), chars)

\* s.split(c)[-1]: what follows the last c
split_last(s, c) ==
    LET at == {i \in DOMAIN s : s[i] = c}
        last == IF at = {} THEN 0 ELSE CHOOSE i \in at : \A j \in at : j <= i
    IN  SubSeq(s, last + 1, Len(s))

\* s.split(c)[0]: what precedes the first c
split_first(s, c) ==
    LET at == {i \in DOMAIN s : s[i] = c}
        first == IF at = {} THEN Len(s) + 1 ELSE CHOOSE i \in at : \A j \in at : i <= j
    IN  SubSeq(s, 1, first - 1)

RECURSIVE replace(_, _, _)
\* s.replace(old, new), old not empty: every occurrence, left to right
replace(s, old, new) ==
    IF s = <<>> THEN <<>>
    ELSE IF startswith(s, old)
         THEN new \o replace(SubSeq(s, Len(old) + 1, Len(s)), old, new)
         ELSE <<s[1]>> \o replace(Tail(s), old, new)

RECURSIVE sub_runs(_, _, _, _)
\* re.sub: every maximal run of at least `least` characters of the class
\* `cls` is replaced by `rep`
sub_runs(s, cls, least, rep) ==
    IF s = <<>> THEN <<>>
    ELSE IF s[1] \in cls
         THEN LET stop == IF \E i \in DOMAIN s : s[i] \notin cls
                          THEN CHOOSE i \in DOMAIN s :
                                   /\ s[i] \notin cls
                                   /\ \A j \in 1..(i - 1) : s[j] \in cls
                          ELSE Len(s) + 1
                  run == SubSeq(s, 1, stop - 1)
                  rest == SubSeq(s, stop, Len(s))
              IN  (IF Len(run) >= least THEN rep ELSE run)
                      \o sub_runs(rest, cls, least, rep)
         ELSE <<s[1]>> \o sub_runs(Tail(s), cls, least, rep)

\* f"{index:02d}"
RECURSIVE digits(_)
digits(n) == IF n < 10 THEN <<DigitSeq[n + 1]>>
             ELSE digits(n \div 10) \o <<DigitSeq[(n % 10) + 1]>>

format_02d(n) == IF n < 10 THEN <<"0">> \o digits(n) ELSE digits(n)

\* ------------------------------------------------------------- the inputs
HTTP_A == <<"h","t","t","p",":","/","/","a","/">>

\* (title, url) pairs as LinkDiscovery or the caller supplies them
Page1 == [title |-> <<"C","h"," ","1">>, url |-> HTTP_A \o <<"c",".","h","t","m","l">>]
Page2 == [title |-> <<"T","o","c">>, url |-> HTTP_A \o <<"d","/">>]

\* the page at position i of the lists handed to scrape_multiple_pages
PageAt(i) == IF i % 2 = 1 THEN Page1 ELSE Page2

\* the page lists: <<>>, <<Page1>>, <<Page1, Page2>>, ... and one list that
\* holds the same pair twice
PageLists ==
    {[i \in 1..n |-> PageAt(i)] : n \in 0..MaxPages} \cup {<<Page1, Page1>>}

Engines == {"BookScraper", "AdvancedBookScraper"}

\* the backend names each engine is run with
BackendNames(eng) ==
    IF eng = "BookScraper" THEN {"aiohttp", "playwright"}
    ELSE {"aiohttp", "requests-html", "playwright"}

\* the merged configuration of _load_config: the defaults, overridden by the
\* keys of the configuration file
Configs ==
    [rate_limiting_enabled : BOOLEAN,
     delay : {DefaultDelay},
     max_attempts : 1..MaxAttempts,
     backoff_factor : {DefaultBackoffFactor},
     user_agent_rotation_enabled : {TRUE}]

\* ------------------------------------------------------------- file names
\* BookScraper.scrape_page_worker: the file name of a page
worker_filename(url) ==
    LET last == split_last(url, "/")
        f0 == IF last = <<>> THEN <<"i","n","d","e","x",".","h","t","m","l">> ELSE last
        f1 == IF "#" \in Range(f0) THEN split_first(f0, "#") ELSE f0
        f2 == IF endswith(f1, <<".","h","t","m","l">>) \/ endswith(f1, <<".","h","t","m">>)
              THEN f1
              ELSE f1 \o <<".","h","t","m","l">>
    IN  [i \in DOMAIN f2 |->
            IF f2[i] \in {"<", ">", ":", "\"", "/", "\\", "|", "?", "*"} THEN "_" ELSE f2[i]]

\* AdvancedBookScraper._generate_smart_filename
generate_smart_filename(index, url, title) ==
    LET tail0 == replace(split_last(rstrip(url, {"/"}), "/"), <<".","h","t","m","l">>, <<>>)
        nonword(s) == {c \in Range(s) : ~IsWord(c) /\ c # "-"}
        slug(s) == sub_runs(s, nonword(s), 1, <<"-">>)
        low == lower(strip(title, Whitespace))
        tail1 == IF tail0 = <<>>
                 THEN (IF slug(low) = <<>> THEN <<"p","a","g","e">> ELSE slug(low))
                 ELSE tail0
        tail2 == strip(sub_runs(tail1, {"-"}, 2, <<"-">>), {"-"})
    IN  format_02d(index) \o <<"_">> \o tail2 \o <<".","h","t","m","l">>

\* pages.index((title, url)): the first position of an equal pair
list_index(ps, p) == CHOOSE i \in DOMAIN ps : ps[i] = p /\ \A j \in 1..(i - 1) : ps[j] # p

\* the file name the task at position t of ps writes to
Filename(eng, ps, t) ==
    IF eng = "BookScraper"
    THEN worker_filename(ps[t].url)
    ELSE generate_smart_filename(list_index(ps, ps[t]), ps[t].url, ps[t].title)

\* ------------------------------------------------------------ the engines
\* ScrapeMetrics(): sizes in bytes, times in milliseconds
ScrapeMetrics ==
    [total_pages |-> 0, successful_pages |-> 0, failed_pages |-> 0,
     total_time |-> 0, avg_time_per_page |-> 0, total_size_mb |-> 0]

\* self.playwright, self.browser, self.context, self.session after __init__
NoResources ==
    [playwright |-> "none", browser |-> "none", context |-> "none", session |-> "none"]

NoException == [type |-> "none", at |-> "none"]

\* the output directory before the first call of scrape_multiple_pages
NoDirectory == [exists |-> FALSE, makedirs |-> 0]

\* a coroutine progress_wrapper(title, url, pbar), not yet started.
\*   attempt     the loop variable of `for attempt in range(self.max_retries)`
\*   attempts    the fetches issued so far
\*   fails       the fetches that raised
\*   backoffs    the retry sleeps taken so far, in order
\*   rate_sleeps the rate-limit sleeps taken so far
\*   elapsed     time.time() - start_time, counting the task's own sleeps
\*   content     what scrape_single_page returned
\*   user_agent  the User-Agent header of the fetch in flight: "unset" when
\*               no fetch is in flight, "none" when it carries no such header
\*   open_pages  the pages of the browser context this task opened with
\*               context.new_page() and has not closed
NewTask ==
    [pc |-> "Pending", attempt |-> 0, attempts |-> 0, fails |-> 0,
     backoffs |-> <<>>, rate_sleeps |-> 0, elapsed |-> 0,
     content |-> "unset", wrote |-> FALSE, exc |-> "none",
     user_agent |-> "unset", open_pages |-> 0]

Holding == {"RateDelay", "Fetching", "BackoffWait"}
Terminal == {"Succeeded", "Failed", "Raised", "Cancelled"}

\* the tasks inside `async with semaphore`
Holders == {t \in DOMAIN task : task[t].pc \in Holding}

\* 2 ** n
RECURSIVE Pow2(_)
Pow2(n) == IF n = 0 THEN 1 ELSE 2 * Pow2(n - 1)

\* the sleep between a failed attempt and the next one
retry_delay(eng, be, cfg, attempt) ==
    IF eng = "BookScraper" THEN cfg.backoff_factor * Pow2(attempt)
    ELSE IF be = "aiohttp" THEN cfg.backoff_factor * Pow2(attempt)
    ELSE IF be = "requests-html" THEN RequestsHtmlRetrySleep
    ELSE PlaywrightRetrySleep

\* a gate that never makes a task wait
sem_free_always(value) == TRUE

\* asyncio.Semaphore.acquire does not wait when the value is positive
sem_free(value) == value > 0

\* a failure branch that also adds to the time of the successful pages
record_failure_timed(m) ==
    [m EXCEPT !.failed_pages = @ + 1, !.total_time = @ + DefaultDelay]

\* the failure branch counting the page as a success
record_failure_as_success(m) == [m EXCEPT !.successful_pages = @ + 1]

\* self.metrics.failed_pages += 1
record_failure(m) == [m EXCEPT !.failed_pages = @ + 1]

\* the success branch without its count
record_success_uncounted(m, size, page_time) ==
    [m EXCEPT !.total_size_mb = @ + size, !.total_time = @ + page_time]

\* the success branch of the worker: the three metrics updates
record_success(m, size, page_time) ==
    [m EXCEPT !.successful_pages = @ + 1,
              !.total_size_mb = @ + size,
              !.total_time = @ + page_time]

\* an average over all pages instead of the successful ones
finalize_over_total(m) ==
    IF m.successful_pages > 0
    THEN [m EXCEPT !.avg_time_per_page = m.total_time \div m.total_pages]
    ELSE m

\* the end of scrape_multiple_pages
finalize(m) ==
    IF m.successful_pages > 0
    THEN [m EXCEPT !.avg_time_per_page = m.total_time \div m.successful_pages]
    ELSE m

\* `if content:` of the worker
truthy(content) == content \notin {"None", ""}

\* _format_html_content: the template around the extracted content, or the
\* original document when anything raised
format_html_content(page, extracted) ==
    [url |-> page.url, templated |-> extracted,
     len |-> IF extracted THEN TemplateLen + RawLen ELSE RawLen]

\* await asyncio.sleep(self.request_delay)
rate_sleep(tk) ==
    [tk EXCEPT !.pc = "RateDelay", !.rate_sleeps = @ + 1, !.elapsed = @ + config.delay]

\* the User-Agent header of one attempt; `ua` is random.choice(self.user_agents).
\* BookScraper asks the configuration, the backends of AdvancedBookScraper
\* ask only whether the list they were given is empty
request_user_agent(eng, cfg, uas, ua) ==
    IF eng = "BookScraper"
    THEN (IF cfg.user_agent_rotation_enabled THEN ua ELSE "none")
    ELSE (IF uas # <<>> THEN ua ELSE "none")

\* page = await self.context.new_page() of the playwright branch
new_page(be, n) == IF be = "playwright" THEN n + 1 ELSE n

\* await page.close(): the statement after page.content(), reached only
\* when neither goto nor content raised
page_close(be, n, raised) == IF be = "playwright" /\ ~raised THEN n - 1 ELSE n

\* the fetch of one attempt is issued with its headers:
\* session.get(url, headers=...) / new_page, set_extra_http_headers, page.goto
issue_fetch(tk, ua) ==
    [tk EXCEPT !.pc = "Fetching", !.attempts = @ + 1,
               !.user_agent = request_user_agent(engine, config, user_agents, ua),
               !.open_pages = new_page(backend, @)]

\* the fetch of one attempt returned `body`
fetch_returned(tk, body) ==
    [tk EXCEPT !.content = body, !.user_agent = "unset",
               !.open_pages = page_close(backend, @, FALSE)]

\* an exception leaves progress_wrapper
raise_in_task(tk, e) == [tk EXCEPT !.pc = "Raised", !.exc = e]

\* ScraperBackend.scrape_page up to its first await
backend_scrape_page(tk, ua) ==
    IF ~available THEN raise_in_task(tk, "ImportError") ELSE issue_fetch(tk, ua)

\* the top of one iteration of the retry loop
loop_top(tk, ua) ==
    IF engine = "BookScraper"
    THEN (IF config.rate_limiting_enabled THEN rate_sleep(tk) ELSE issue_fetch(tk, ua))
    ELSE issue_fetch(tk, ua)

\* scrape_single_page up to its first await
scrape_single_page(tk, ua) ==
    IF engine = "BookScraper" THEN loop_top(tk, ua)
    ELSE IF config.rate_limiting_enabled THEN rate_sleep(tk)
    ELSE backend_scrape_page(tk, ua)

\* what follows await asyncio.sleep(self.request_delay)
after_rate_sleep(tk, ua) ==
    IF engine = "BookScraper" THEN issue_fetch(tk, ua) ELSE backend_scrape_page(tk, ua)

\* `except Exception` of the retry loop
on_fetch_error(tk) ==
    LET failed == [tk EXCEPT !.fails = @ + 1, !.user_agent = "unset",
                             !.open_pages = page_close(backend, @, TRUE)]
        delay == retry_delay(engine, backend, config, tk.attempt)
    IN  IF tk.attempt < config.max_attempts - 1
        THEN [failed EXCEPT !.pc = "BackoffWait",
                            !.backoffs = Append(@, delay),
                            !.elapsed = @ + delay]
        ELSE [failed EXCEPT !.content = "None"]

\* a gate that is released on return only, not when an exception leaves
sem_after_return_only(value, old, new) ==
    value - (IF old.pc = "Pending" THEN 1 ELSE 0)
          + (IF new.pc \in {"Succeeded", "Failed"} THEN 1 ELSE 0)

\* the semaphore after a step that took task t from `old` to `new`
sem_after(value, old, new) ==
    value - (IF old.pc = "Pending" THEN 1 ELSE 0)
          + (IF new.pc \in Terminal THEN 1 ELSE 0)

TasksRunning == pc \in {"gathering", "batch_raised"}

\* no file name is being generated
NameIdle ==
    /\ name_args = "none"
    /\ filename = <<>>
    /\ npc = "idle"

\* no document is being formatted
ExtractIdle ==
    /\ document = "none"
    /\ title_arg = <<>>
    /\ formatted_content = "none"
    /\ xpc = "idle"

\* default_config of _load_config
default_config ==
    [rate_limiting |-> [delay |-> DefaultDelay, enabled |-> TRUE],
     retry |-> [max_attempts |-> DefaultMaxAttempts, backoff_factor |-> DefaultBackoffFactor],
     user_agent_rotation |-> [enabled |-> TRUE],
     concurrency |-> [max_concurrent |-> DefaultMaxConcurrent]]

\* self.user_agents of __init__: five strings, here by their position
UserAgents == <<"UA1", "UA2", "UA3", "UA4", "UA5">>

\* the engine is handed its merged configuration directly; the batch is
\* followed with the first user agent of the list
ConfigIdle ==
    /\ config_file = "none"
    /\ max_concurrent_arg = DefaultMaxConcurrent
    /\ merged_config = default_config
    /\ user_agents = <<UserAgents[1]>>

\* ------------------------------------------------------------- the caller
Init ==
    /\ engine \in Engines
    /\ backend \in BackendNames(engine)
    \* scraper.py imports aiohttp unconditionally
    /\ available \in (IF engine = "BookScraper" /\ backend = "aiohttp" THEN {TRUE} ELSE BOOLEAN)
    /\ config \in Configs
    /\ max_concurrent \in 1..MaxConcurrent
    /\ pages \in PageLists
    /\ pc = "start"
    /\ resources = NoResources
    /\ semaphore = 0
    /\ task = <<>>
    /\ metrics = ScrapeMetrics
    /\ files = <<>>
    /\ exc = NoException
    /\ output_dir = NoDirectory
    /\ anchors = <<>>
    /\ filtered_links = <<>>
    /\ unique_links = <<>>
    /\ lpc = "idle"
    /\ ExtractIdle
    /\ ConfigIdle
    /\ NameIdle

\* BookScraper.__init__ / AdvancedBookScraper.__init__ with _create_backend:
\* no check of the *_AVAILABLE flags
Construct ==
    /\ pc = "start"
    /\ pc' = "constructed"
    /\ metrics' = ScrapeMetrics
    /\ resources' = NoResources
    /\ UNCHANGED <<engine, backend, available, config, max_concurrent, pages,
                   output_dir,
                   semaphore, task, files, exc>>
    /\ UNCHANGED functionVars

\* the three awaits of the playwright __aenter__; `fail` is the one that raises
playwright_aenter(fail) ==
    [playwright |-> IF fail = "start" THEN "none" ELSE "open",
     browser |-> IF fail \in {"start", "launch"} THEN "none" ELSE "open",
     context |-> IF fail = "none" THEN "open" ELSE "none",
     session |-> "none"]

\* `async with Engine(...) as scraper`: __aenter__.  When __aenter__ raises,
\* Python does not call __aexit__.
AEnter ==
    /\ pc = "constructed"
    /\ IF backend = "playwright"
       THEN IF ~available
            THEN IF engine = "BookScraper"
                 THEN /\ pc' = "acquire_failed"
                      /\ exc' = [type |-> "ImportError", at |-> "acquire"]
                      /\ UNCHANGED resources
                 ELSE /\ pc' = "entered"
                      /\ UNCHANGED <<resources, exc>>
            ELSE \E fail \in {"none", "start", "launch", "new_context"} :
                    /\ resources' = playwright_aenter(fail)
                    /\ pc' = IF fail = "none" THEN "entered" ELSE "acquire_failed"
                    /\ exc' = IF fail = "none" THEN exc
                              ELSE [type |-> "Error", at |-> "acquire"]
       ELSE /\ resources' = IF engine = "BookScraper" \/ available
                            THEN [resources EXCEPT !.session = "open"]
                            ELSE resources
            /\ pc' = "entered"
            /\ UNCHANGED exc
    /\ UNCHANGED <<engine, backend, available, config, max_concurrent, pages,
                   output_dir,
                   semaphore, task, metrics, files>>
    /\ UNCHANGED functionVars

\* __aexit__: every resource that is set is closed
aexit(r) ==
    [k \in DOMAIN r |-> IF r[k] = "open" THEN "closed" ELSE r[k]]

AExit ==
    /\ pc \in {"batch_returned", "batch_raised"}
    /\ resources' = aexit(resources)
    /\ pc' = "exited"
    /\ UNCHANGED <<engine, backend, available, config, max_concurrent, pages,
                   output_dir,
                   semaphore, task, metrics, files, exc>>
    /\ UNCHANGED functionVars

\* asyncio.run closes the loop: the tasks still pending are cancelled
LoopClose ==
    /\ pc \in {"exited", "acquire_failed"}
    /\ pc' = "done"
    /\ task' = [t \in DOMAIN task |->
                    IF task[t].pc \in Terminal THEN task[t]
                    ELSE [task[t] EXCEPT !.pc = "Cancelled"]]
    /\ semaphore' = semaphore + Cardinality(Holders)
    /\ UNCHANGED <<engine, backend, available, config, max_concurrent, pages,
                   output_dir,
                   resources, metrics, files, exc>>
    /\ UNCHANGED functionVars

\* a scrape_multiple_pages that leaves the directory to others
makedirs_skipped(dir, made) == dir

\* os.makedirs(self.output_dir, exist_ok=True): `made` says it did not raise
makedirs(dir, made) ==
    [exists |-> dir.exists \/ made, makedirs |-> dir.makedirs + 1]

\* scrape_multiple_pages up to `await asyncio.gather(*tasks)`: the
\* directory, total_pages, the semaphore and the tasks
StartBatch ==
    /\ \E made \in BOOLEAN :
          /\ output_dir' = makedirs(output_dir, made)
          /\ IF made
             THEN /\ metrics' = [metrics EXCEPT !.total_pages = Len(pages)]
                  /\ semaphore' = max_concurrent
                  /\ task' = [t \in DOMAIN pages |-> NewTask]
                  /\ pc' = "gathering"
                  /\ UNCHANGED exc
             ELSE /\ exc' = [type |-> "OSError", at |-> "makedirs"]
                  /\ pc' = "batch_raised"
                  /\ UNCHANGED <<metrics, semaphore, task>>
    /\ UNCHANGED <<engine, backend, available, config, max_concurrent, pages,
                   resources, files>>
    /\ UNCHANGED functionVars

\* the caller calls scrape_multiple_pages(pages)
ScrapeMultiplePages ==
    /\ pc = "entered"
    /\ StartBatch

\* gather returns once every task has returned; the average is computed
GatherReturn ==
    /\ pc = "gathering"
    /\ \A t \in DOMAIN task : task[t].pc \in {"Succeeded", "Failed"}
    /\ metrics' = finalize(metrics)
    /\ pc' = "batch_returned"
    /\ UNCHANGED <<engine, backend, available, config, max_concurrent, pages,
                   output_dir,
                   resources, semaphore, task, files, exc>>
    /\ UNCHANGED functionVars

\* gather (return_exceptions=False) raises the exception of a task to the
\* caller; the other tasks are not cancelled
GatherRaise ==
    /\ pc = "gathering"
    /\ \E t \in DOMAIN task :
          /\ task[t].pc = "Raised"
          /\ exc' = [type |-> task[t].exc, at |-> "task"]
    /\ pc' = "batch_raised"
    /\ UNCHANGED <<engine, backend, available, config, max_concurrent, pages,
                   output_dir,
                   resources, semaphore, task, metrics, files>>
    /\ UNCHANGED functionVars

\* ----------------------------------------------------------- a page task
\* `async with semaphore:` and the code up to the first await
Acquire(t) ==
    /\ TasksRunning
    /\ task[t].pc = "Pending"
    /\ sem_free(semaphore)
    /\ \E ua \in Range(user_agents) :
          LET new == scrape_single_page(task[t], ua)
          IN  /\ task' = [task EXCEPT ![t] = new]
              /\ semaphore' = sem_after(semaphore, task[t], new)
    /\ UNCHANGED <<engine, backend, available, config, max_concurrent, pages,
                   output_dir,
                   pc, resources, metrics, files, exc>>
    /\ UNCHANGED functionVars

\* the rate-limit sleep is over
WakeRate(t) ==
    /\ TasksRunning
    /\ task[t].pc = "RateDelay"
    /\ \E ua \in Range(user_agents) :
          LET new == after_rate_sleep(task[t], ua)
          IN  /\ task' = [task EXCEPT ![t] = new]
              /\ semaphore' = sem_after(semaphore, task[t], new)
    /\ UNCHANGED <<engine, backend, available, config, max_concurrent, pages,
                   output_dir,
                   pc, resources, metrics, files, exc>>
    /\ UNCHANGED functionVars

\* the retry sleep is over: the next iteration of the loop
WakeBackoff(t) ==
    /\ TasksRunning
    /\ task[t].pc = "BackoffWait"
    /\ \E ua \in Range(user_agents) :
          task' = [task EXCEPT ![t] = loop_top([task[t] EXCEPT !.attempt = @ + 1], ua)]
    /\ UNCHANGED <<engine, backend, available, config, max_concurrent, pages,
                   output_dir,
                   pc, resources, semaphore, metrics, files, exc>>
    /\ UNCHANGED functionVars

\* the worker from the return of scrape_single_page to its own return:
\* format, file name, write, metrics, release of the semaphore.
\*   extracted  _format_html_content did not fall back to the original
\*   written    open(filepath, 'w') and f.write did not raise
Complete(t, tk, extracted, written) ==
    LET formatted == format_html_content(pages[t], extracted)
        new == IF ~truthy(tk.content) THEN [tk EXCEPT !.pc = "Failed"]
               ELSE IF written THEN [tk EXCEPT !.pc = "Succeeded", !.wrote = TRUE]
               ELSE raise_in_task(tk, "OSError")
    IN  /\ task' = [task EXCEPT ![t] = new]
        /\ semaphore' = sem_after(semaphore, tk, new)
        /\ files' = IF new.pc = "Succeeded"
                    THEN (Filename(engine, pages, t) :> formatted) @@ files
                    ELSE files
        /\ metrics' = IF new.pc = "Succeeded"
                      THEN record_success(metrics, formatted.len, tk.elapsed)
                      ELSE IF new.pc = "Failed" THEN record_failure(metrics)
                      ELSE metrics

\* how the awaited fetch of one attempt can end: an exception, an empty
\* body (response.text() of an empty response; page.content() of playwright
\* always serializes a document) or a document
Outcomes(be) ==
    IF be = "playwright" THEN {"error", "html"} ELSE {"error", "empty", "html"}

\* the awaited fetch of one attempt ends
FetchDone(t) ==
    /\ TasksRunning
    /\ task[t].pc = "Fetching"
    /\ \E outcome \in Outcomes(backend), extracted \in BOOLEAN, written \in BOOLEAN :
          IF outcome = "error"
          THEN LET new == on_fetch_error(task[t])
               IN  IF new.pc = "BackoffWait"
                   THEN /\ task' = [task EXCEPT ![t] = new]
                        /\ UNCHANGED <<semaphore, files, metrics>>
                   ELSE Complete(t, new, extracted, written)
          ELSE Complete(t, fetch_returned(task[t], IF outcome = "empty" THEN "" ELSE "html"),
                        extracted, written)
    /\ UNCHANGED <<engine, backend, available, config, max_concurrent, pages,
                   output_dir,
                   pc, resources, exc>>
    /\ UNCHANGED functionVars

Next ==
    \/ Construct
    \/ AEnter
    \/ ScrapeMultiplePages
    \/ \E t \in DOMAIN task : Acquire(t)
    \/ \E t \in DOMAIN task : WakeRate(t)
    \/ \E t \in DOMAIN task : FetchDone(t)
    \/ \E t \in DOMAIN task : WakeBackoff(t)
    \/ GatherReturn
    \/ GatherRaise
    \/ AExit
    \/ LoopClose

Spec == Init /\ [][Next]_vars

\* the event loop runs every callback that is ready, and every awaited
\* sleep and fetch completes
Fairness ==
    /\ WF_vars(Construct)
    /\ WF_vars(AEnter)
    /\ WF_vars(ScrapeMultiplePages)
    /\ WF_vars(GatherReturn)
    /\ WF_vars(GatherRaise)
    /\ WF_vars(AExit)
    /\ WF_vars(LoopClose)
    /\ \A t \in 1..MaxPages :
           /\ WF_vars(t \in DOMAIN task /\ Acquire(t))
           /\ WF_vars(t \in DOMAIN task /\ WakeRate(t))
           /\ WF_vars(t \in DOMAIN task /\ FetchDone(t))
           /\ WF_vars(t \in DOMAIN task /\ WakeBackoff(t))

FairSpec == Init /\ [][Next]_vars /\ Fairness

\* --------------------------------------------------------- link discovery
\* `p in s` for strings
contains(s, p) == \E i \in 1..(Len(s) - Len(p) + 1) : SubSeq(s, i, i + Len(p) - 1) = p

\* the first position of character c in s, Len(s) + 1 when there is none
find_char(s, cs) ==
    IF \E i \in DOMAIN s : s[i] \in cs
    THEN CHOOSE i \in DOMAIN s : s[i] \in cs /\ \A j \in 1..(i - 1) : s[j] \notin cs
    ELSE Len(s) + 1

\* urlparse(url).netloc: what follows "scheme://" up to the next / ? or #
netloc(url) ==
    LET colon == find_char(url, {":"})
        rest == SubSeq(url, colon + 3, Len(url))
    IN  IF colon + 2 <= Len(url) /\ SubSeq(url, colon + 1, colon + 2) = <<"/","/">>
        THEN SubSeq(rest, 1, find_char(rest, {"/", "?", "#"}) - 1)
        ELSE <<>>

\* urljoin(base, href) for the references of the seed documents: a
\* reference with a host ("//host/path"), with an absolute path ("/path"),
\* a fragment ("#frag") and a path relative to the directory of the base
urljoin(base, href) ==
    LET colon == find_char(base, {":"})
        scheme == SubSeq(base, 1, colon)
        origin == scheme \o <<"/","/">> \o netloc(base)
        path == SubSeq(base, Len(origin) + 1, find_char(base, {"?", "#"}) - 1)
        slashes == {i \in DOMAIN path : path[i] = "/"}
        dir == IF slashes = {} THEN <<"/">>
               ELSE SubSeq(path, 1, CHOOSE i \in slashes : \A j \in slashes : j <= i)
    IN  IF href = <<>> THEN base
        ELSE IF startswith(href, <<"/","/">>) THEN scheme \o href
        ELSE IF startswith(href, <<"/">>) THEN origin \o href
        ELSE IF startswith(href, <<"#">>)
             THEN SubSeq(base, 1, find_char(base, {"#"}) - 1)
                      \o (IF Len(href) > 1 THEN href ELSE <<>>)
        ELSE origin \o dir \o href

\* skip_patterns of main()
skip_patterns ==
    {<<"h","o","m","e">>, <<"i","n","d","e","x">>, <<"c","o","n","t","a","c","t">>,
     <<"a","b","o","u","t">>, <<"p","r","i","v","a","c","y">>, <<"t","e","r","m","s">>}

\* the href of an anchor as the filter of main() compares and stores it
resolve(base, href) ==
    IF startswith(href, <<"h","t","t","p",":","/","/">>)
          \/ startswith(href, <<"h","t","t","p","s",":","/","/">>)
    THEN href
    ELSE urljoin(base, href)

\* a filter that compares the text with the patterns without lower-casing it
is_content_link_cased(base, a) ==
    LET text == strip(a.text, Whitespace)
    IN  /\ a.href # <<>>
        /\ a.href # <<"#">>
        /\ netloc(resolve(base, a.href)) = netloc(base)
        /\ Len(text) >= 3
        /\ \A pattern \in skip_patterns : ~contains(text, pattern)

\* one iteration of `for link in all_links`: TRUE when the link is appended
is_content_link(base, a) ==
    LET text == strip(a.text, Whitespace)
    IN  /\ a.href # <<>>
        /\ a.href # <<"#">>
        /\ netloc(resolve(base, a.href)) = netloc(base)
        /\ Len(text) >= 3
        /\ \A pattern \in skip_patterns : ~contains(lower(text), pattern)

RECURSIVE content_links(_, _)
\* the loop `for link in all_links` of main(): the (text, href) pairs kept
content_links(base, as) ==
    IF as = <<>> THEN <<>>
    ELSE LET a == Head(as)
             rest == content_links(base, Tail(as))
         IN  IF is_content_link(base, a)
             THEN <<[title |-> strip(a.text, Whitespace),
                     url |-> resolve(base, a.href)]>> \o rest
             ELSE rest

\* a duplicate removal that never finds a URL in `seen`
not_seen_ever(href, seen) == TRUE

\* `if href not in seen` of the duplicate removal
not_seen(href, seen) == href \notin seen

RECURSIVE remove_duplicates(_, _, _)
\* "Remove duplicates while preserving order" of main(): the loop over
\* content_links with the set `seen` and the list `unique_links`
remove_duplicates(links, seen, unique) ==
    IF links = <<>> THEN unique
    ELSE IF not_seen(Head(links).url, seen)
         THEN remove_duplicates(Tail(links), seen \cup {Head(links).url},
                                Append(unique, Head(links)))
         ELSE remove_duplicates(Tail(links), seen, unique)

\* main(): from the anchors of the homepage to unique_links
discover_links(base, as) == remove_duplicates(content_links(base, as), {}, <<>>)

base_url == HTTP_A

\* the anchors <a href=...>text</a> of the seed documents
AnchorSet ==
    {[href |-> <<"c",".","h","t","m","l">>, text |-> <<"C","h"," ","1">>],
     [href |-> <<"/","c",".","h","t","m","l">>, text |-> <<" ","C","h","a","p">>],
     [href |-> HTTP_A \o <<"c",".","h","t","m","l">>, text |-> <<"H","o","m","e">>],
     [href |-> <<"h","t","t","p",":","/","/","b","/","x">>, text |-> <<"E","x","t">>],
     [href |-> <<"/","d","/">>, text |-> <<"T","o","c">>],
     [href |-> <<"#">>, text |-> <<"T","o","p">>],
     [href |-> <<"/","e">>, text |-> <<"a","b">>],
     [href |-> <<>>, text |-> <<"C","h"," ","2">>]}

RECURSIVE SeqsUpTo(_, _)
\* the sequences over S of length at most n
SeqsUpTo(S, n) ==
    IF n = 0 THEN {<<>>}
    ELSE LET shorter == SeqsUpTo(S, n - 1)
         IN  shorter \cup {Append(q, x) : q \in {r \in shorter : Len(r) = n - 1}, x \in S}

\* the engine is not run while links are discovered
InitLinks ==
    /\ engine = "BookScraper"
    /\ backend = "aiohttp"
    /\ available = TRUE
    /\ config = [rate_limiting_enabled |-> TRUE, delay |-> DefaultDelay,
                 max_attempts |-> 1, backoff_factor |-> DefaultBackoffFactor]
    /\ max_concurrent = 1
    /\ pages = <<>>
    /\ pc = "start"
    /\ resources = NoResources
    /\ semaphore = 0
    /\ task = <<>>
    /\ metrics = ScrapeMetrics
    /\ files = <<>>
    /\ exc = NoException
    /\ output_dir = NoDirectory
    /\ anchors \in SeqsUpTo(AnchorSet, MaxAnchors)
    /\ filtered_links = <<>>
    /\ unique_links = <<>>
    /\ lpc = "seed"
    /\ ExtractIdle
    /\ ConfigIdle
    /\ NameIdle

\* main(): the homepage is parsed, its links are filtered and deduplicated
DiscoverLinks ==
    /\ lpc = "seed"
    /\ filtered_links' = content_links(base_url, anchors)
    /\ unique_links' = discover_links(base_url, anchors)
    /\ lpc' = "discovered"
    /\ UNCHANGED anchors
    /\ UNCHANGED engineVars
    /\ UNCHANGED extractVars
    /\ UNCHANGED configVars
    /\ UNCHANGED nameVars

NextLinks == DiscoverLinks

SpecLinks == InitLinks /\ [][NextLinks]_vars

\* ------------------------------------------------------ content extraction
\* an element of a parsed document: tag, class, id, text and child elements
El(tag, cls, id, text, kids) ==
    [tag |-> tag, cls |-> cls, id |-> id, text |-> text, kids |-> kids]

\* the selectors: a tag name, ".class" or "#id"
Tag(name) == [kind |-> "tag", name |-> name]
Class(name) == [kind |-> "class", name |-> name]
Id(name) == [kind |-> "id", name |-> name]

\* self.content_selectors of the advanced engine, the local list
\* content_selectors of BookScraper._format_html_content
content_selectors(eng) ==
    IF eng = "BookScraper"
    THEN <<Tag("main"), Tag("article"), Class("content"), Id("content"), Tag("body")>>
    ELSE <<Tag("article"), Tag("main"), Class("entry-content"), Id("content"),
           Class("post-content"), Class("article-content"), Class("content"),
           Id("main"), Class("main-content"), Tag("body")>>

\* self.unwanted_selectors
unwanted_selectors ==
    <<Tag("nav"), Tag("header"), Tag("footer"), Tag("script"), Tag("style"),
      Class("post-nav"), Class("site-footer"), Class("site-header"),
      Class("ads"), Class("sidebar"), Class("toc"), Class("navigation")>>

\* an element matches a simple selector
sel_matches(sel, e) ==
    IF sel.kind = "tag" THEN e.tag = sel.name
    ELSE IF sel.kind = "class" THEN e.cls = sel.name
    ELSE e.id = sel.name

RECURSIVE preorder(_)
\* the elements of a forest in document order
preorder(forest) ==
    IF forest = <<>> THEN <<>>
    ELSE <<Head(forest)>> \o preorder(Head(forest).kids) \o preorder(Tail(forest))

\* soup.select(selector): every match, in document order
select(forest, sel) ==
    LET all == preorder(forest)
        at == {i \in DOMAIN all : sel_matches(sel, all[i])}
        RECURSIVE pick(_)
        pick(i) == IF i > Len(all) THEN <<>>
                   ELSE (IF i \in at THEN <<all[i]>> ELSE <<>>) \o pick(i + 1)
    IN  pick(1)

RECURSIVE decompose(_, _)
\* element.decompose() for every element of soup.select(sel)
decompose(forest, sel) ==
    IF forest = <<>> THEN <<>>
    ELSE LET e == Head(forest)
         IN  (IF sel_matches(sel, e) THEN <<>>
              ELSE <<[e EXCEPT !.kids = decompose(e.kids, sel)]>>)
                 \o decompose(Tail(forest), sel)

RECURSIVE clean_from(_, _)
\* the loop `for selector in self.unwanted_selectors` from position i on
clean_from(forest, i) ==
    IF i > Len(unwanted_selectors) THEN forest
    ELSE clean_from(decompose(forest, unwanted_selectors[i]), i + 1)

\* AdvancedBookScraper._clean_html_content
clean_html_content(forest) == clean_from(forest, 1)

RECURSIVE serialize(_)
\* str(element) / str(soup): the opening tag, the children, the closing tag
serialize(forest) ==
    IF forest = <<>> THEN <<>>
    ELSE LET e == Head(forest)
         IN  <<[open |-> TRUE, tag |-> e.tag, cls |-> e.cls, id |-> e.id, text |-> e.text]>>
                 \o serialize(e.kids)
                 \o <<[open |-> FALSE, tag |-> e.tag, cls |-> "", id |-> "", text |-> <<>>]>>
                 \o serialize(Tail(forest))

RECURSIVE select_content_last(_, _, _)
\* the selector loop without its `break`: the last selector that matches wins
select_content_last(forest, sels, i) ==
    IF i > Len(sels) THEN <<>>
    ELSE LET later == select_content_last(forest, sels, i + 1)
         IN  IF later # <<>> THEN later
             ELSE IF select(forest, sels[i]) # <<>>
                  THEN serialize(<<Head(select(forest, sels[i]))>>)
                  ELSE <<>>

RECURSIVE select_content(_, _, _)
\* the loop `for selector in content_selectors` from position i on:
\* inner_html, "" when nothing matched
select_content(forest, sels, i) ==
    IF i > Len(sels) THEN <<>>
    ELSE IF select(forest, sels[i]) # <<>>
         THEN serialize(<<Head(select(forest, sels[i]))>>)
         ELSE select_content(forest, sels, i + 1)

\* "Extract title": the title handed in, the <title> of the document or
\* the default label
resolve_title(title, forest) ==
    IF title = <<>> \/ title = <<"H","o","m","e">>
    THEN (IF select(forest, Tag("title")) # <<>>
          THEN strip(Head(select(forest, Tag("title"))).text, Whitespace)
          ELSE <<"S","c","r","a","p","e","d"," ","P","a","g","e">>)
    ELSE title

\* an exception is raised inside the try block of _format_html_content:
\* BeautifulSoup(...) raises on a document the parser rejects, and bs4 may
\* raise on a document while the title is looked up (only `if not title or
\* title == 'Home'`), while it is cleaned (the advanced engine only) or
\* while the selectors are tried
raises_in_try(eng, title, doc) ==
    \/ doc.rejected
    \/ doc.raises = "title" /\ (title = <<>> \/ title = <<"H","o","m","e">>)
    \/ doc.raises = "clean" /\ eng # "BookScraper"
    \/ doc.raises = "select"

\* the body of the try block of _format_html_content
format_try(eng, title, doc) ==
    IF raises_in_try(eng, title, doc) THEN [raised |-> TRUE]
    ELSE LET soup == IF eng = "BookScraper" THEN doc.root
                     ELSE clean_html_content(doc.root)
             found == select_content(soup, content_selectors(eng), 1)
             inner_html ==
                 IF found # <<>> THEN found
                 ELSE IF select(soup, Tag("body")) # <<>>
                      THEN serialize(<<Head(select(soup, Tag("body")))>>)
                      ELSE serialize(soup)
         IN  [raised |-> FALSE,
              templated |-> TRUE,
              title |-> resolve_title(title, doc.root),
              inner_html |-> inner_html]

\* an except branch that returns an empty document
format_html_blank(eng, title, doc) ==
    LET r == format_try(eng, title, doc)
    IN  IF r.raised
        THEN [raised |-> FALSE, templated |-> FALSE, title |-> <<>>,
              inner_html |-> <<>>]
        ELSE r

\* _format_html_content: the template filled in, or original_html when
\* anything raised
format_html(eng, title, doc) ==
    LET r == format_try(eng, title, doc)
    IN  IF r.raised
        THEN [raised |-> FALSE, templated |-> FALSE, title |-> <<>>,
              inner_html |-> serialize(doc.root)]
        ELSE r

\* elements without children
Leaf(tag) == El(tag, "", "", <<>>, <<>>)
Div(cls, id) == El("div", cls, id, <<>>, <<>>)
Inside(e, kid) == [e EXCEPT !.kids = <<kid>>]

\* the elements the bodies of the source documents are made of
ElementKinds ==
    {Leaf("article"), Leaf("main"), Leaf("nav"), Leaf("p"),
     Div("content", ""), Div("", "content"), Div("sidebar", ""),
     Inside(Leaf("article"), Leaf("nav")),
     Inside(Leaf("article"), Leaf("p")),
     Inside(Leaf("nav"), Leaf("article")),
     Inside(Leaf("main"), Leaf("article")),
     Inside(Div("content", ""), Div("sidebar", ""))}

TitleTag == El("title", "", "", <<" ","M","y">>, <<>>)

\* the later stages of the extraction at which bs4 can raise on a document
ExtractStages == {"title", "clean", "select"}

\* a source document: its elements, with or without <title> and <body>;
\* `rejected` and `raises` say where processing it raises, if anywhere
Document(rejected, raises, titled, bodied, kids) ==
    [rejected |-> rejected,
     raises |-> raises,
     root |-> (IF titled THEN <<TitleTag>> ELSE <<>>)
                \o (IF bodied THEN <<El("body", "", "", <<>>, kids)>> ELSE kids)]

Documents ==
    {Document(FALSE, raises, titled, bodied, kids) :
        raises \in {"none"} \cup ExtractStages,
        titled \in BOOLEAN, bodied \in BOOLEAN,
        kids \in SeqsUpTo(ElementKinds, MaxKids)}
    \cup {Document(TRUE, "none", titled, bodied, kids) :
        titled \in BOOLEAN, bodied \in BOOLEAN,
        kids \in SeqsUpTo(ElementKinds, MaxKids)}

\* the titles handed to _format_html_content
Titles == {<<>>, <<"H","o","m","e">>, <<"C","h"," ","1">>}

\* the worker has fetched one document and formats and saves it
InitExtract ==
    /\ engine \in Engines
    /\ backend = "aiohttp"
    /\ available = TRUE
    /\ config = [rate_limiting_enabled |-> TRUE, delay |-> DefaultDelay,
                 max_attempts |-> 1, backoff_factor |-> DefaultBackoffFactor]
    /\ max_concurrent = 1
    /\ title_arg \in Titles
    /\ pages = <<[title |-> title_arg, url |-> Page1.url]>>
    /\ pc = "gathering"
    /\ resources = NoResources
    /\ semaphore = 0
    /\ task = <<>>
    /\ metrics = [ScrapeMetrics EXCEPT !.total_pages = 1]
    /\ files = <<>>
    /\ exc = NoException
    /\ output_dir = makedirs(NoDirectory, TRUE)
    /\ anchors = <<>>
    /\ filtered_links = <<>>
    /\ unique_links = <<>>
    /\ lpc = "idle"
    /\ document \in Documents
    /\ formatted_content = "none"
    /\ xpc = "fetched"
    /\ ConfigIdle
    /\ NameIdle

\* formatted_content = self._format_html_content(title, content)
FormatHtmlContent ==
    /\ xpc = "fetched"
    /\ formatted_content' = format_html(engine, title_arg, document)
    /\ xpc' = "formatted"
    /\ UNCHANGED <<document, title_arg>>
    /\ UNCHANGED engineVars
    /\ UNCHANGED linkVars
    /\ UNCHANGED configVars
    /\ UNCHANGED nameVars

\* the worker after _format_html_content: the file is written and the
\* page counted, or open()/write() raises and the exception leaves the worker
SaveFormatted ==
    /\ xpc = "formatted"
    /\ \E written \in BOOLEAN :
          IF written
          THEN /\ files' = (Filename(engine, pages, 1) :> formatted_content) @@ files
               /\ metrics' = record_success(metrics,
                                  Len(formatted_content.inner_html)
                                      + (IF formatted_content.templated
                                         THEN TemplateLen ELSE 0),
                                  0)
               /\ xpc' = "saved"
               /\ UNCHANGED exc
          ELSE /\ exc' = [type |-> "OSError", at |-> "task"]
               /\ xpc' = "write_failed"
               /\ UNCHANGED <<files, metrics>>
    /\ UNCHANGED <<document, title_arg, formatted_content>>
    /\ UNCHANGED <<engine, backend, available, config, max_concurrent, pages,
                   output_dir,
                   pc, resources, semaphore, task>>
    /\ UNCHANGED linkVars
    /\ UNCHANGED configVars
    /\ UNCHANGED nameVars

NextExtract == FormatHtmlContent \/ SaveFormatted

SpecExtract == InitExtract /\ [][NextExtract]_vars

\* ---------------------------------------------------------- configuration
RECURSIVE merge_dicts(_, _, _)
\* merge_dicts(default, override) of _load_config; `nested` says that the
\* values of this level are dictionaries (isinstance(value, dict))
merge_dicts(default, override, nested) ==
    [key \in DOMAIN default \cup DOMAIN override |->
        IF key \notin DOMAIN override THEN default[key]
        ELSE IF nested /\ key \in DOMAIN default
             THEN merge_dicts(default[key], override[key], FALSE)
             ELSE override[key]]

\* _load_config(config_file): BookScraper wraps reading and merging in
\* try/except and falls back to default_config, AdvancedBookScraper does not
load_config(eng, file) ==
    IF file.state \in {"none", "missing"}
    THEN [raised |-> "none", config |-> default_config]
    ELSE IF file.state = "unparsable"
         THEN (IF eng = "BookScraper"
               THEN [raised |-> "none", config |-> default_config]
               ELSE [raised |-> "JSONDecodeError", config |-> default_config])
         ELSE IF ~file.mapping
              THEN (IF eng = "BookScraper"
                    THEN [raised |-> "none", config |-> default_config]
                    ELSE [raised |-> "AttributeError", config |-> default_config])
              ELSE [raised |-> "none",
                    config |-> merge_dicts(default_config, file.value, TRUE)]

\* what the engine reads from self.config: rate_limiting.enabled and .delay,
\* retry.max_attempts and .backoff_factor, user_agent_rotation.enabled
config_read(cfg) ==
    [rate_limiting_enabled |-> cfg.rate_limiting.enabled,
     delay |-> cfg.rate_limiting.delay,
     max_attempts |-> cfg.retry.max_attempts,
     backoff_factor |-> cfg.retry.backoff_factor,
     user_agent_rotation_enabled |-> cfg.user_agent_rotation.enabled]

\* the configuration file: config_file is None, names no file, names a
\* file that does not parse, a file holding a list, or a file holding a mapping
ConfigFile(state, mapping, value) == [state |-> state, mapping |-> mapping, value |-> value]

NoOverride == [section \in {} |-> [key \in {} |-> 0]]

ConfigFiles ==
    {ConfigFile(st, FALSE, NoOverride) : st \in {"none", "missing", "unparsable", "parsed"}}
    \cup {ConfigFile("parsed", TRUE, NoOverride)}
    \cup {ConfigFile("parsed", TRUE, [concurrency |-> [max_concurrent |-> k]]) :
              k \in 1..MaxConcurrent}
    \cup {ConfigFile("parsed", TRUE, [retry |-> [max_attempts |-> 1],
                                      rate_limiting |-> [enabled |-> FALSE]])}
    \cup {ConfigFile("parsed", TRUE, [user_agent_rotation |-> [enabled |-> FALSE]])}

\* the backend names handed to the constructors: two that both engines
\* implement, one in another case and one that no engine knows
BackendArgs == {"aiohttp", "playwright", "Playwright", "selenium"}

\* backend.lower() on the names of BackendArgs
backend_lower(name) == IF name = "Playwright" THEN "playwright" ELSE name

\* what __init__ does with the backend name: BookScraper stores
\* backend.lower() and checks nothing, _create_backend compares the name as
\* given with its three names and raises ValueError otherwise
create_backend(eng, name) ==
    IF eng = "BookScraper"
    THEN [raised |-> "none", backend |-> backend_lower(name)]
    ELSE IF name \in {"aiohttp", "requests-html", "playwright"}
         THEN [raised |-> "none", backend |-> name]
         ELSE [raised |-> "ValueError", backend |-> name]

\* an engine is constructed from a backend name and a configuration file
\* and runs a batch
InitConfig ==
    /\ engine \in Engines
    /\ backend \in BackendArgs
    /\ available = TRUE
    /\ config = config_read(default_config)
    /\ max_concurrent = DefaultMaxConcurrent
    /\ pages \in {<<>>, <<Page1>>}
    /\ pc = "start"
    /\ resources = NoResources
    /\ semaphore = 0
    /\ task = <<>>
    /\ metrics = ScrapeMetrics
    /\ files = <<>>
    /\ exc = NoException
    /\ output_dir = NoDirectory
    /\ anchors = <<>>
    /\ filtered_links = <<>>
    /\ unique_links = <<>>
    /\ lpc = "idle"
    /\ ExtractIdle
    /\ NameIdle
    /\ config_file \in ConfigFiles
    /\ max_concurrent_arg \in {DefaultMaxConcurrent} \cup 1..MaxConcurrent
    /\ merged_config = default_config
    /\ user_agents = UserAgents

\* __init__ with _load_config and the choice of the backend: an exception
\* of _load_config or of _create_backend leaves __init__
ConstructWithConfig ==
    /\ pc = "start"
    /\ LET loaded == load_config(engine, config_file)
           created == create_backend(engine, backend)
       IN  IF loaded.raised # "none"
           THEN /\ pc' = "construct_failed"
                /\ exc' = [type |-> loaded.raised, at |-> "construct"]
                /\ UNCHANGED <<merged_config, config, max_concurrent, backend>>
           ELSE IF created.raised # "none"
           THEN /\ pc' = "construct_failed"
                /\ exc' = [type |-> created.raised, at |-> "construct"]
                /\ merged_config' = loaded.config
                /\ config' = config_read(loaded.config)
                /\ max_concurrent' = max_concurrent_arg
                /\ UNCHANGED backend
           ELSE /\ pc' = "constructed"
                /\ merged_config' = loaded.config
                /\ config' = config_read(loaded.config)
                /\ max_concurrent' = max_concurrent_arg
                /\ backend' = created.backend
                /\ UNCHANGED exc
    /\ metrics' = ScrapeMetrics
    /\ resources' = NoResources
    /\ UNCHANGED <<engine, available, pages, semaphore, task, files, output_dir>>
    /\ UNCHANGED <<config_file, max_concurrent_arg, user_agents>>
    /\ UNCHANGED linkVars
    /\ UNCHANGED extractVars
    /\ UNCHANGED nameVars

NextConfig ==
    \/ ConstructWithConfig
    \/ AEnter
    \/ ScrapeMultiplePages
    \/ \E t \in DOMAIN task : Acquire(t)
    \/ \E t \in DOMAIN task : WakeRate(t)
    \/ \E t \in DOMAIN task : FetchDone(t)
    \/ \E t \in DOMAIN task : WakeBackoff(t)
    \/ GatherReturn
    \/ GatherRaise
    \/ AExit
    \/ LoopClose

SpecConfig == InitConfig /\ [][NextConfig]_vars

\* ------------------------------------------------------- naming the files
\* the last segments of the page URLs: with and without an extension, .htm,
\* ".html" inside the segment, a query string, a fragment, a colon, hyphens
\* only, and the empty segment of a URL that ends with a slash
NameSegments ==
    {<<"c",".","h","t","m","l">>, <<"c",".","h","t","m">>, <<"c">>,
     <<"c",".","h","t","m","l","x">>, <<"c",".","h","t","m","l","?","p","=","1">>,
     <<"c","?","p","=","1">>, <<"c","#","f">>, <<"c",":","d">>, <<"-">>,
     <<"a","-","-","b">>, <<>>}

\* absolute URLs on the host a, and the root-relative URL "/"
NameUrls == {HTTP_A \o seg : seg \in NameSegments} \cup {<<"/">>}

\* link texts: words, punctuation only, hyphens only, blank, empty
NameTitles ==
    {<<"C","h"," ","1">>, <<"!">>, <<"-","-">>, <<" ">>, <<>>, <<"a",":","b","?">>}

\* a page is about to be named: the worker has its index, url and title
InitNames ==
    /\ engine \in Engines
    /\ backend = "aiohttp"
    /\ available = TRUE
    /\ config = config_read(default_config)
    /\ max_concurrent = DefaultMaxConcurrent
    /\ pages = <<>>
    /\ pc = "gathering"
    /\ resources = NoResources
    /\ semaphore = 0
    /\ task = <<>>
    /\ metrics = ScrapeMetrics
    /\ files = <<>>
    /\ exc = NoException
    /\ output_dir = makedirs(NoDirectory, TRUE)
    /\ anchors = <<>>
    /\ filtered_links = <<>>
    /\ unique_links = <<>>
    /\ lpc = "idle"
    /\ ExtractIdle
    /\ ConfigIdle
    /\ name_args \in [index : 1..MaxPages, url : NameUrls, title : NameTitles]
    /\ filename = <<>>
    /\ npc = "start"

\* the worker computes the file name of its page
GenerateFilename ==
    /\ npc = "start"
    /\ filename' = IF engine = "BookScraper"
                   THEN worker_filename(name_args.url)
                   ELSE generate_smart_filename(name_args.index, name_args.url,
                                                name_args.title)
    /\ npc' = "named"
    /\ UNCHANGED name_args
    /\ UNCHANGED engineVars
    /\ UNCHANGED linkVars
    /\ UNCHANGED extractVars
    /\ UNCHANGED configVars

NextNames == GenerateFilename

SpecNames == InitNames /\ [][NextNames]_vars

\* ---------------------------------------------------------- repeated calls
\* the calls of scrape_multiple_pages made on one engine instance
MaxCalls == 2

\* one engine with the aiohttp backend and a list of one page
InitRepeat ==
    /\ Init
    /\ backend = "aiohttp"
    /\ available
    /\ max_concurrent = 1
    /\ pages = <<Page1>>

\* the caller calls scrape_multiple_pages(pages) again on the same
\* instance, inside the same `async with`
ScrapeAgain ==
    /\ pc = "batch_returned"
    /\ output_dir.makedirs < MaxCalls
    /\ StartBatch

NextRepeat ==
    \/ Next
    \/ ScrapeAgain

SpecRepeat == InitRepeat /\ [][NextRepeat]_vars

\* ------------------------------------------------------------- the claims
\* the delays backoff_factor * 2^0 ... backoff_factor * 2^(n-2)
ExponentialDelays(cfg) ==
    [i \in 1..(cfg.max_attempts - 1) |-> cfg.backoff_factor * Pow2(i - 1)]

\* C1: a URL that fails on every attempt is fetched exactly max_attempts
\* times, with exactly max_attempts - 1 retry sleeps, the i-th of them
\* lasting backoff_factor * 2^i, and nothing follows the last failure; for
\* every backend of both engines.
C1_ExponentialBackoff ==
    \A t \in DOMAIN task :
        task[t].content = "None" =>
            /\ task[t].attempts = config.max_attempts
            /\ task[t].fails = config.max_attempts
            /\ task[t].backoffs = ExponentialDelays(config)
            /\ task[t].pc = "Failed"

\* C2: at most max_concurrent tasks are inside `async with semaphore` (in
\* the rate-limit sleep, the fetch or the retry sleep; extraction and write
\* are part of the step that leaves it).
C2_GateBound == Cardinality(Holders) <= max_concurrent

\* the gate is full and a task waits for a slot
C2_Witness ==
    /\ Cardinality(Holders) = max_concurrent
    /\ \E t \in DOMAIN task : task[t].pc = "Pending"

\* C3: when scrape_multiple_pages has returned on a fresh engine,
\* successful_pages + failed_pages = total_pages.
C3_CountsAddUp ==
    pc = "batch_returned" =>
        metrics.successful_pages + metrics.failed_pages = metrics.total_pages

\* a batch that returned with a successful and a failed page
C3_Witness ==
    /\ pc = "batch_returned"
    /\ metrics.successful_pages >= 1
    /\ metrics.failed_pages >= 1

\* C4: a failure inside a page task never makes scrape_multiple_pages
\* raise: it raises only when the output directory cannot be created, and
\* every task runs to Succeeded or Failed.
C4_TaskFailureIsolated ==
    /\ exc.at # "task"
    /\ pc \in {"batch_raised", "exited", "done"} /\ exc.at # "makedirs" =>
           \A t \in DOMAIN task : task[t].pc \in {"Succeeded", "Failed"}

\* C5: a page one of whose fetch attempts succeeds was fetched once more
\* than it failed, slept once per failure, is not fetched again, ends
\* Succeeded and has its content in a file.
C5_SuccessShortCircuits ==
    \A t \in DOMAIN task :
        task[t].content \in {"", "html"} =>
            /\ task[t].attempts = task[t].fails + 1
            /\ Len(task[t].backoffs) = task[t].fails
            /\ task[t].pc = "Succeeded"
            /\ task[t].wrote
            /\ Filename(engine, pages, t) \in DOMAIN files

\* C6: the step in which a page's last attempt fails adds exactly one to
\* failed_pages, leaves successful_pages and the output files as they are,
\* and ends the task as Failed after max_attempts fetches, with no file written.
C6_FailedPageCounted ==
    /\ [](\A t \in DOMAIN task :
             task[t].content = "None" =>
                 /\ task[t].pc \in {"Failed"}
                 /\ ~task[t].wrote
                 /\ task[t].attempts = config.max_attempts
                 /\ metrics.failed_pages >= 1)
    /\ [][\A t \in DOMAIN task :
             (task[t].content = "unset" /\ task'[t].content = "None") =>
                 /\ metrics'.failed_pages = metrics.failed_pages + 1
                 /\ metrics'.successful_pages = metrics.successful_pages
                 /\ files' = files]_vars

\* a page failed for good after another page was written
C6_Witness ==
    \E t, u \in DOMAIN task :
        /\ task[t].content = "None"
        /\ task[t].attempts >= 2
        /\ task[u].pc = "Succeeded"
        /\ metrics.failed_pages = 1
        /\ DOMAIN files # {}

\* C7: with rate limiting enabled, a task has slept the rate-limit delay
\* once for every fetch attempt it has made, in both engines.
C7_RateLimitEveryAttempt ==
    config.rate_limiting_enabled =>
        \A t \in DOMAIN task :
            (task[t].pc \in {"Fetching", "BackoffWait", "Succeeded", "Failed", "Raised"}
                /\ task[t].attempts >= 1) =>
                task[t].rate_sleeps = task[t].attempts

\* C8: once the `async with` scope is left, also when __aenter__ failed
\* part-way, no driver, browser, context or session is still open.
C8_ResourcesReleased ==
    pc \in {"acquire_failed", "exited", "done"} =>
        \A k \in DOMAIN resources : resources[k] # "open"

\* C9: the error of a backend that is not installed is raised by the
\* constructor, never by __aenter__ or by a page task.
C9_UnavailableAtConstruction ==
    /\ exc.type = "ImportError" => exc.at = "construct"
    /\ \A t \in DOMAIN task : task[t].exc # "ImportError"

\* the position in links of the first pair with this url
first_seen(links, url) ==
    CHOOSE i \in DOMAIN links : links[i].url = url /\ \A j \in 1..(i - 1) : links[j].url # url

\* C10: unique_links holds one pair for every distinct resolved URL of the
\* links that pass the filter, in the order of the first link of each URL,
\* with the text of that first link.
C10_DedupByUrl ==
    lpc = "discovered" =>
        LET kept == content_links(base_url, anchors)
            urls == {kept[i].url : i \in DOMAIN kept}
        IN  /\ Len(unique_links) = Cardinality(urls)
            /\ \A i, j \in DOMAIN unique_links :
                   i # j => unique_links[i].url # unique_links[j].url
            /\ \A i \in DOMAIN unique_links :
                   /\ unique_links[i].url \in urls
                   /\ unique_links[i].title
                          = kept[first_seen(kept, unique_links[i].url)].title
            /\ \A i, j \in DOMAIN unique_links :
                   i < j => first_seen(kept, unique_links[i].url)
                                < first_seen(kept, unique_links[j].url)

\* three links pass the filter, two of them resolve to the same URL
C10_Witness ==
    /\ lpc = "discovered"
    /\ Len(content_links(base_url, anchors)) = 3
    /\ Len(unique_links) = 2
    /\ \E i, j \in DOMAIN anchors :
           /\ i < j
           /\ anchors[i].href # anchors[j].href
           /\ resolve(base_url, anchors[i].href) = resolve(base_url, anchors[j].href)
           /\ is_content_link(base_url, anchors[i])
           /\ is_content_link(base_url, anchors[j])

\* the host of a URL as urlparse gives it
C11_host(url) == netloc(url)

\* the four conditions of the claim on one anchor
C11_Qualifies(a) ==
    /\ Len(a.href) > 0
    /\ a.href # <<"#">>
    /\ C11_host(resolve(base_url, a.href)) = C11_host(base_url)
    /\ Len(strip(a.text, Whitespace)) >= 3
    /\ ~\E w \in skip_patterns : contains(lower(strip(a.text, Whitespace)), w)

\* C11: the links kept by the filter are, in document order, exactly the
\* anchors whose href is neither empty nor "#", whose resolved URL has the
\* host of the base URL, whose stripped text has at least 3 characters and
\* whose lower-cased text contains none of the skip patterns.
C11_FilterIff ==
    lpc = "discovered" =>
        LET qualifying == SelectSeq(anchors, C11_Qualifies)
        IN  /\ Len(filtered_links) = Len(qualifying)
            /\ \A i \in DOMAIN filtered_links :
                   /\ filtered_links[i].url = resolve(base_url, qualifying[i].href)
                   /\ filtered_links[i].title = strip(qualifying[i].text, Whitespace)

\* a document with a link that is kept, a link with a skip pattern in
\* capitals and a link to another host
C11_Witness ==
    /\ lpc = "discovered"
    /\ Len(filtered_links) = 1
    /\ \E i, j \in DOMAIN anchors :
           /\ contains(anchors[i].text, <<"H","o","m","e">>)
           /\ netloc(resolve(base_url, anchors[j].href)) # netloc(base_url)

\* an element matches a selector of the unwanted set
C12_Unwanted(e) ==
    \E i \in DOMAIN unwanted_selectors : sel_matches(unwanted_selectors[i], e)

RECURSIVE C12_Kept(_)
\* a forest without its unwanted elements and what they contain
C12_Kept(forest) ==
    IF forest = <<>> THEN <<>>
    ELSE (IF C12_Unwanted(Head(forest)) THEN <<>>
          ELSE <<[Head(forest) EXCEPT !.kids = C12_Kept(Head(forest).kids)]>>)
             \o C12_Kept(Tail(forest))

\* the document the selectors of an engine are tried on: the advanced
\* engine cleans before it selects
C12_Tree(eng, doc) ==
    IF eng = "AdvancedBookScraper" THEN C12_Kept(doc.root) ELSE doc.root

\* the first element, in document order, that matches the selector
C12_FirstOf(forest, sel) ==
    LET all == preorder(forest)
        k == CHOOSE k \in DOMAIN all :
                 /\ sel_matches(sel, all[k])
                 /\ \A j \in 1..(k - 1) : ~sel_matches(sel, all[j])
    IN  all[k]

\* C12: the extractor never raises; the content it places in the template
\* is the serialization of the first element matched by the earliest
\* selector of the priority list that matches anything, whatever later
\* selectors match; when none matches it is the body, and without a body
\* the whole document (also for a document on which the extraction raises).
C12_FirstMatchingSelector ==
    xpc # "fetched" =>
        LET tree == C12_Tree(engine, document)
            all == preorder(tree)
            sels == content_selectors(engine)
            hits == {i \in DOMAIN sels :
                        /\ sels[i] # Tag("body")
                        /\ \E k \in DOMAIN all : sel_matches(sels[i], all[k])}
            earliest == CHOOSE i \in hits : \A j \in hits : i <= j
            has_body == \E k \in DOMAIN all : all[k].tag = "body"
        IN  /\ ~formatted_content.raised
            /\ formatted_content.inner_html =
                   IF raises_in_try(engine, title_arg, document)
                   THEN serialize(document.root)
                   ELSE IF hits # {} THEN serialize(<<C12_FirstOf(tree, sels[earliest])>>)
                   ELSE IF has_body THEN serialize(<<C12_FirstOf(tree, Tag("body"))>>)
                   ELSE serialize(tree)

\* a document with <main> before <article>, formatted by the advanced
\* engine, whose list has article first: the article is returned
C12_Witness ==
    /\ xpc = "formatted"
    /\ engine = "AdvancedBookScraper"
    /\ ~raises_in_try(engine, title_arg, document)
    /\ LET all == preorder(document.root)
       IN  \E i, j \in DOMAIN all :
               /\ i < j
               /\ all[i] = Leaf("main")
               /\ all[j] = Leaf("article")
    /\ formatted_content.inner_html = serialize(<<Leaf("article")>>)

\* C13: when a document was processed without error, the inner content
\* placed in the template has no element that matches a selector of the
\* unwanted set, whichever selector or fallback supplied it, in both engines.
C13_NoUnwantedContent ==
    (xpc # "fetched" /\ formatted_content.templated) =>
        \A k \in DOMAIN formatted_content.inner_html :
            LET token == formatted_content.inner_html[k]
            IN  token.open =>
                    ~\E i \in DOMAIN unwanted_selectors :
                        sel_matches(unwanted_selectors[i], token)

\* C14: the file written by the task at position p of the list has a name
\* that starts with p, zero-padded to two digits; tasks at different
\* positions therefore write different files, also for equal stems or
\* identical (title, url) pairs.
C14_PositionPrefix ==
    /\ \A t \in DOMAIN task :
           task[t].wrote =>
               \E f \in DOMAIN files :
                   /\ startswith(f, format_02d(t) \o <<"_">>)
                   /\ files[f].url = pages[t].url
    /\ Cardinality(DOMAIN files) = Cardinality({t \in DOMAIN task : task[t].wrote})

\* C16: when scrape_multiple_pages has returned, avg_time_per_page is
\* total_time / successful_pages (in whole milliseconds) if a page
\* succeeded, and 0 if none did.
C16_AverageTime ==
    pc = "batch_returned" =>
        IF metrics.successful_pages > 0
        THEN metrics.avg_time_per_page = metrics.total_time \div metrics.successful_pages
        ELSE metrics.avg_time_per_page = 0

\* a batch returned with one page written after some sleeping and one
\* page failed
C16_Witness ==
    /\ pc = "batch_returned"
    /\ metrics.successful_pages = 1
    /\ metrics.failed_pages = 1
    /\ metrics.total_time > 0
    /\ metrics.avg_time_per_page = metrics.total_time

\* C17: the capacity of the semaphore a run creates is
\* concurrency.max_concurrent of the merged configuration (10 when the
\* file does not set it).
C17_GateCapacityFromConfig ==
    pc = "gathering" =>
        semaphore + Cardinality(Holders) = merged_config.concurrency.max_concurrent

\* C18: with a configuration file that exists and does not parse, or does
\* not hold a mapping, construction succeeds with exactly the default
\* configuration, in both engines.
C18_MalformedConfigFallsBack ==
    (config_file.state = "unparsable" \/ (config_file.state = "parsed" /\ ~config_file.mapping)) =>
        /\ pc # "construct_failed"
        /\ exc.at # "construct"
        /\ pc # "start" => /\ merged_config = default_config
                           /\ config = config_read(default_config)

\* the semaphore of scrape_multiple_pages exists
C19_GateCreated ==
    /\ pc \in {"gathering", "batch_returned", "batch_raised", "exited", "done"}
    /\ exc.at \notin {"makedirs", "acquire"}

\* C19: a task holds exactly one slot from before its first rate-limit
\* sleep or fetch until it is terminal: the free slots and the tasks
\* inside the gate always add up to max_concurrent, a task that has not
\* acquired has neither slept nor fetched, a task inside the gate never
\* goes back to waiting for it, the step that ends a task (Succeeded,
\* Failed, Raised or Cancelled) gives its slot back, and when every task
\* is terminal no slot is held.
C19_OneSlotPerTask ==
    /\ [](C19_GateCreated =>
             /\ semaphore + Cardinality(Holders) = max_concurrent
             /\ \A t \in DOMAIN task :
                    task[t].pc = "Pending" =>
                        task[t].attempts = 0 /\ task[t].rate_sleeps = 0
             /\ (\A t \in DOMAIN task : task[t].pc \in Terminal) =>
                    semaphore = max_concurrent)
    /\ [][C19_GateCreated =>
             \A t \in DOMAIN task :
                 /\ task[t].pc \in Holding => task'[t].pc \in Holding \cup Terminal
                 /\ task[t].pc \in Terminal => task'[t].pc = task[t].pc
                 /\ (task[t].pc = "Pending" /\ task'[t].pc \in Holding) =>
                        semaphore' = semaphore - 1
                 /\ (task[t].pc \in Holding /\ task'[t].pc \in Terminal
                        /\ \A u \in DOMAIN task \ {t} : task'[u] = task[u]) =>
                        semaphore' = semaphore + 1]_vars

\* every task is terminal, one by an exception that left it after it had
\* fetched, another by failing all its attempts, and no slot is held
C19_Witness ==
    /\ C19_GateCreated
    /\ semaphore = max_concurrent
    /\ \E t, u \in DOMAIN task :
           /\ task[t].pc = "Raised"
           /\ task[t].attempts >= 1
           /\ task[u].pc = "Failed"

\* C20: with a fair event loop in which every sleep and fetch completes,
\* every task of a batch eventually ends Succeeded or Failed.
C20_EveryTaskSettles ==
    \A t \in 1..MaxPages :
        [](t \in DOMAIN task =>
              <>(t \in DOMAIN task /\ task[t].pc \in {"Succeeded", "Failed"}))

\* C21: every task that has ended has incremented exactly one of
\* successful_pages and failed_pages, by one: the two counters are the
\* numbers of tasks that ended with a file and without one, and no task
\* ends outside the two
C21_OneCountPerTask ==
    /\ metrics.successful_pages =
           Cardinality({t \in DOMAIN task : task[t].pc = "Succeeded"})
    /\ metrics.failed_pages =
           Cardinality({t \in DOMAIN task : task[t].pc = "Failed"})
    /\ \A t \in DOMAIN task :
           task[t].pc \in Terminal => task[t].pc \in {"Succeeded", "Failed"}

\* C22: a task is counted as failed only after max_attempts fetches that
\* all raised, and a task one of whose fetches completed without an error,
\* whatever the body (the empty body too), is counted as successful and has
\* its file written (stated for the tasks whose worker returned)
C22_FailedOnlyWhenExhausted ==
    \A t \in DOMAIN task :
        /\ task[t].pc = "Failed" =>
               /\ task[t].attempts = config.max_attempts
               /\ task[t].fails = config.max_attempts
        /\ (task[t].pc \in {"Succeeded", "Failed"} /\ task[t].content \in {"", "html"}) =>
               /\ task[t].pc = "Succeeded"
               /\ task[t].wrote
               /\ Filename(engine, pages, t) \in DOMAIN files

\* C23: scrape_multiple_pages hands control back to its caller, by
\* returning or by raising, only after every page task is terminal: no task
\* is then in flight or holds a slot of the gate
C23_ControlBackAfterTasks ==
    pc \in {"batch_returned", "batch_raised", "exited", "done"} =>
        /\ \A t \in DOMAIN task : task[t].pc \in Terminal
        /\ Holders = {}

\* C24: with the full-browser backend every fetch attempt closes the page it
\* opened, whether the attempt succeeds or fails: a task that has no fetch
\* in flight has left no page open
C24_PageClosedEveryAttempt ==
    backend = "playwright" =>
        \A t \in DOMAIN task :
            task[t].pc # "Fetching" => task[t].open_pages = 0

\* C25: a backend name that the engine does not implement makes the
\* construction fail: no engine is constructed, entered or run under it
C25_UnknownBackendRejected ==
    backend \notin BackendNames(engine) => pc \in {"start", "construct_failed"}

\* C30: a fetch in flight carries a User-Agent header exactly when
\* user_agent_rotation.enabled is true in the merged configuration, and the
\* header is then one of the strings of the configured list
C30_UserAgentWhenEnabled ==
    \A t \in DOMAIN task :
        task[t].pc = "Fetching" =>
            /\ task[t].user_agent # "none" <=> merged_config.user_agent_rotation.enabled
            /\ task[t].user_agent # "none" => task[t].user_agent \in Range(user_agents)

\* the last segment of a page URL, a trailing slash ignored
C26_segment(url) == split_last(rstrip(url, {"/"}), "/")

\* a segment without its trailing .html or .htm
C26_without_suffix(seg) ==
    IF endswith(seg, <<".","h","t","m","l">>) THEN SubSeq(seg, 1, Len(seg) - 5)
    ELSE IF endswith(seg, <<".","h","t","m">>) THEN SubSeq(seg, 1, Len(seg) - 4)
    ELSE seg

\* the stem of NN_stem.html
C26_stem(f) == SubSeq(f, 4, Len(f) - 5)

\* C26: the stem of the file name is the last path segment of the URL with
\* only a trailing .html or .htm removed (stated for the segments that are
\* not empty and hold no hyphen, query string or fragment)
C26_StemIsSegmentWithoutSuffix ==
    (/\ npc = "named"
     /\ engine = "AdvancedBookScraper"
     /\ C26_segment(name_args.url) # <<>>
     /\ Range(C26_segment(name_args.url)) \cap {"-", "?", "#"} = {})
    => C26_stem(filename) = C26_without_suffix(C26_segment(name_args.url))

\* the slug of a title: lower case, each run of non-word characters replaced
\* by one hyphen, leading and trailing hyphens trimmed
C27_slug(title) ==
    LET low == lower(title)
    IN  strip(sub_runs(low, {c \in Range(low) : ~IsWord(c)}, 1, <<"-">>), {"-"})

\* C27: the stem is never empty; when the last path segment of the URL is
\* empty the stem is the slug of the title, and "page" when that slug is empty
C27_SlugOrPage ==
    (npc = "named" /\ engine = "AdvancedBookScraper") =>
        /\ C26_stem(filename) # <<>>
        /\ C26_segment(name_args.url) = <<>> =>
               C26_stem(filename) = IF C27_slug(name_args.title) = <<>>
                                    THEN <<"p","a","g","e">>
                                    ELSE C27_slug(name_args.title)

\* C28: no file name of either engine holds one of < > : " / \ | ? *
C28_NoReservedCharacter ==
    npc = "named" =>
        Range(filename) \cap {"<", ">", ":", "\"", "/", "\\", "|", "?", "*"} = {}

\* C29: when anything raises while the document is parsed, its title
\* resolved, or its content cleaned or selected, _format_html_content returns
\* the original document, unchanged and without the template, and raises
\* nothing; the worker goes on to write that document and, once the write
\* is done, the file holds it and the page is counted as successful.  No
\* page is counted as failed and no exception of the extraction reaches
\* the worker.
C29_FallbackToOriginal ==
    (xpc # "fetched" /\ raises_in_try(engine, title_arg, document)) =>
        /\ ~formatted_content.raised
        /\ ~formatted_content.templated
        /\ formatted_content.inner_html = serialize(document.root)
        /\ metrics.failed_pages = 0
        /\ exc.type \in {"none", "OSError"}
        /\ xpc = "saved" =>
               /\ files[Filename(engine, pages, 1)].inner_html = serialize(document.root)
               /\ ~files[Filename(engine, pages, 1)].templated
               /\ metrics.successful_pages = 1

\* the selectors raise on a document that has an article; the file holds
\* the whole original document and the page is counted
C29_Witness ==
    /\ xpc = "saved"
    /\ document.raises = "select"
    /\ \E k \in DOMAIN document.root : document.root[k].tag = "body"
    /\ Len(serialize(document.root)) > 2
    /\ files[Filename(engine, pages, 1)].inner_html = serialize(document.root)
    /\ metrics.successful_pages = 1

\* C33: the step in which a page task ends Failed changes nothing but
\* failed_pages, which it increments by one: successful_pages, total_time,
\* total_size_mb, the other metrics and the output files, their set and
\* their contents, are the same before and after it
C33_FailedTaskFrame ==
    [][\A t \in DOMAIN task :
           (/\ t \in DOMAIN task'
            /\ task[t].pc # "Failed"
            /\ task'[t].pc = "Failed")
           => /\ metrics' = [metrics EXCEPT !.failed_pages = @ + 1]
              /\ files' = files]_vars

\* a task has ended Failed after another one was written and counted
C33_Witness ==
    /\ \E t, u \in DOMAIN task :
           /\ task[t].pc = "Failed"
           /\ task[u].pc = "Succeeded"
    /\ metrics.failed_pages = 1
    /\ metrics.successful_pages = 1
    /\ metrics.total_time > 0
    /\ files # <<>>

\* C31: in a batch run os.makedirs is called on the output directory
\* exactly once, and it has completed before any page task exists: whenever
\* the batch is under way, a task has been created or a file has been
\* written, the one call has been made and the directory exists
C31_DirectoryBeforeTasks ==
    /\ output_dir.makedirs <= 1
    /\ (pc \in {"gathering", "batch_returned"} \/ task # <<>> \/ files # <<>>) =>
           /\ output_dir.makedirs = 1
           /\ output_dir.exists
    /\ \A t \in DOMAIN task : task[t].wrote => output_dir.exists

\* one task has written its file while the other has not started
C31_Witness ==
    /\ output_dir = [exists |-> TRUE, makedirs |-> 1]
    /\ Len(task) = 2
    /\ task[1].wrote
    /\ task[2].pc = "Pending"
    /\ files # <<>>

\* C32: after each call of scrape_multiple_pages that has returned, the
\* first, the second and the later ones, successful_pages + failed_pages is
\* total_pages
C32_CountsAddUpAfterEachCall ==
    pc = "batch_returned" =>
        metrics.successful_pages + metrics.failed_pages = metrics.total_pages

====
